---------------------------- MODULE Spec2Model ----------------------------
(* Model of train_transformer.py: the distributed training driver.  Each  *)
(* process runs main(); a run may resume from a checkpoint directory that *)
(* an earlier run wrote into the same experiment directory.               *)
EXTENDS Integers, Sequences, FiniteSets, TLC

\* ---------------------------------------------------------------- bounds
MaxProcs == 2        \* accelerator.num_processes ranges over 1..MaxProcs
MaxSteps == 3        \* conf.train.n_steps ranges over 1..MaxSteps
MaxFreq == 2         \* conf.train.save_freq / sample_freq range over 0..MaxFreq
MaxEpochLen == 2     \* len(train_loader) ranges over 0..MaxEpochLen
MaxRuns == 2         \* number of launches of the script
MaxBatch == 3        \* conf.train.batch_size ranges over 2..MaxBatch

VARIABLES
    conf,        \* conf.train.{batch_size,n_steps,save_freq,sample_freq}, num_processes, len(train_loader)
    args,        \* args.resume: None or the checkpoint directory to resume from
    run,         \* number of the current launch
    fs,          \* the experiment directory: exists, ckpt/<name>/{model,optimizer,meta}.pt, samples/<name>.png
    pc,          \* position of each process in main()
    step,        \* the local `step` of each process
    model,       \* transformer parameters of each process: the step indices whose update they contain
    optimizer,   \* optimizer state of each process: the step indices it has applied
    vqvae,       \* the pretrained VQVAE of each process
    built,       \* the objects each process has constructed so far
    gen,         \* train_data_generator of each process: epoch number and position in the epoch
    batch,       \* the batch last fetched by each process
    bsz,         \* batch_size_per_process of each process
    events,      \* what each process did in this run, in order
    writes       \* file-system writes of this run, in order, with the writing process

vars == <<conf, args, run, fs, pc, step, model, optimizer, vqvae, built, gen, batch, bsz, events, writes>>

None == "None"
Procs == 0 .. (conf.num_processes - 1)
is_main_process(p) == p = 0

\* ------------------------------------------------------- pure helpers
\* decimal digits of a natural number, most significant first
DigitChar(d) == <<"0", "1", "2", "3", "4", "5", "6", "7", "8", "9">>[d + 1]

RECURSIVE Digits(_)
Digits(n) == IF n < 10 THEN <<DigitChar(n)>> ELSE Digits(n \div 10) \o <<DigitChar(n % 10)>>

\* str(d): a '-' sign for negatives, then the digits
Str(d) == IF d < 0 THEN <<"-">> \o Digits(0 - d) ELSE Digits(d)

\* fill on the left with '0' up to `width` characters ('0>6' in the format spec)
RECURSIVE PadLeft(_, _)
PadLeft(s, width) == IF Len(s) >= width THEN s ELSE PadLeft(<<"0">> \o s, width)

\* f'step{step:0>6d}'
StepWidth == 6
StepName(s) == PadLeft(Str(s), StepWidth)

\* utils.misc.check_freq: every freq-th step, counting from 1; never when freq < 1
check_freq(freq, s) == freq >= 1 /\ (s + 1) % freq = 0

Range(f) == {f[i] : i \in DOMAIN f}

\* ------------------------------------------------------------- state
NoVqvae == [loaded |-> FALSE, updates |-> 0]
EmptyFs == [exp_dir |-> FALSE, ckpt |-> <<>>, samples |-> {}]

\* every process starts main() with nothing built
Fresh(v) == [p \in 0 .. conf.num_processes - 1 |-> v]
NoGen == [epoch |-> 0, pos |-> 0]

Init ==
    /\ conf \in [num_processes : 1 .. MaxProcs,
                 batch_size : 2 .. MaxBatch,
                 n_steps : 1 .. MaxSteps,
                 save_freq : 0 .. MaxFreq,
                 sample_freq : 0 .. MaxFreq,
                 epoch_len : 0 .. MaxEpochLen]
    /\ args = [resume |-> None]
    /\ run = 1
    /\ fs = EmptyFs
    /\ pc = Fresh("accelerator")
    /\ step = Fresh(0)
    /\ model = Fresh(<<>>)
    /\ optimizer = Fresh(<<>>)
    /\ vqvae = Fresh(NoVqvae)
    /\ built = Fresh({})
    /\ gen = Fresh(NoGen)
    /\ batch = Fresh(None)
    /\ bsz = Fresh(0)
    /\ events = Fresh(<<>>)
    /\ writes = <<>>

\* ------------------------------------------------------------ helpers
Goto(p, l) == pc' = [pc EXCEPT ![p] = l]
Log(p, e) == events' = [events EXCEPT ![p] = Append(@, e)]

\* the decorator left out: the function runs on every process
on_main_process_Absent(p) == TRUE

\* @accelerator.on_main_process: the decorated function runs on the main process only
on_main_process(p) == is_main_process(p)

\* the optimizer built over the VQVAE's parameters as well
OptimizerParams_WithVqvae == {"model", "vqvae"}

\* the parameters handed to the optimizer (model.parameters()); the VQVAE is
\* built with requires_grad_(False) and is not among them
OptimizerParams == {"model"}

\* the file system after accelerator.save of the three files into ckpt/<name>/
WriteCkpt(f, name, p) ==
    [f EXCEPT !.ckpt = [n \in DOMAIN f.ckpt \cup {name} |->
        IF n = name
        THEN [model |-> model[p], optimizer |-> optimizer[p], step |-> step[p]]
        ELSE f.ckpt[n]]]

\* load_ckpt: step = ckpt_meta['step'] + 1
ResumedStep(meta) == meta.step + 1

\* the loop test with <= in place of <
LoopCond_Inclusive(p) == step[p] <= conf.n_steps

\* `while step < conf.train.n_steps`
LoopCond(p) == step[p] < conf.n_steps

\* `if check_freq(conf.train.save_freq, step)`
SaveDue(p) == check_freq(conf.save_freq, step[p])

\* `if check_freq(conf.train.sample_freq, step)`
SampleDue(p) == check_freq(conf.sample_freq, step[p])

\* the save after the loop done unconditionally
FinalSaveDue_Always(p) == TRUE

\* `if not check_freq(conf.train.save_freq, step - 1)`
FinalSaveDue(p) == ~check_freq(conf.save_freq, step[p] - 1)

\* the divisibility check left out
BatchSizeRejected_Never == FALSE

\* `if conf.train.batch_size % accelerator.num_processes != 0`
BatchSizeRejected == conf.batch_size % conf.num_processes # 0

\* utils.misc.get_data_generator: where the generator yields its next batch from;
\* when the loader is exhausted it starts the loader again
get_data_generator(g) ==
    IF g.pos >= conf.epoch_len THEN [epoch |-> g.epoch + 1, pos |-> 0] ELSE g

\* where a process goes after run_step and track_status: accelerator.wait_for_everyone()
AfterRunStep == "bar199"

Barriers == {"bar52", "bar88", "bar156", "bar199", "bar205", "bar209", "bar214"}

\* the statement after each wait_for_everyone()
AfterBarrier(l) ==
    CASE l = "bar52" -> "create_exp_dir"
      [] l = "bar88" -> "check_batch_size"
      [] l = "bar156" -> "while"
      [] l = "bar199" -> "save"
      [] l = "bar205" -> "sample"
      [] l = "bar209" -> "inc"
      [] l = "bar214" -> "done"

Terminated(p) == pc[p] \in {"done", "raised"}

\* ------------------------------------------------------------ actions
\* accelerate.Accelerator(), then wait_for_everyone()
InitAccelerator(p) ==
    /\ pc[p] = "accelerator"
    /\ Goto(p, "bar52")
    /\ UNCHANGED <<conf, args, run, fs, step, model, optimizer, vqvae, built, gen, batch, bsz, events, writes>>

\* accelerator.wait_for_everyone(): returns once every process has called it
WaitForEveryone ==
    /\ \A p \in Procs : pc[p] \in Barriers
    /\ pc' = [p \in Procs |-> AfterBarrier(pc[p])]
    /\ UNCHANGED <<conf, args, run, fs, step, model, optimizer, vqvae, built, gen, batch, bsz, events, writes>>

\* create_exp_dir on the main process, logger, status tracker, seed, wait_for_everyone()
CreateExpDir(p) ==
    /\ pc[p] = "create_exp_dir"
    /\ IF is_main_process(p)
       THEN /\ fs' = [fs EXCEPT !.exp_dir = TRUE]
            /\ writes' = Append(writes, [proc |-> p, kind |-> "exp_dir", name |-> <<>>, site |-> "setup"])
       ELSE UNCHANGED <<fs, writes>>
    /\ Goto(p, "bar88")
    /\ UNCHANGED <<conf, args, run, step, model, optimizer, vqvae, built, gen, batch, bsz, events>>

\* the divisibility check of the batch size
CheckBatchSize(p) ==
    /\ pc[p] = "check_batch_size"
    /\ IF BatchSizeRejected
       THEN /\ Goto(p, "raised")
            /\ Log(p, [e |-> "ValueError", s |-> step[p]])
       ELSE /\ Goto(p, "build_data")
            /\ UNCHANGED events
    /\ UNCHANGED <<conf, args, run, fs, step, model, optimizer, vqvae, built, gen, batch, bsz, writes>>

\* train_set, batch_size_per_process, train_loader
BuildData(p) ==
    /\ pc[p] = "build_data"
    /\ bsz' = [bsz EXCEPT ![p] = conf.batch_size \div conf.num_processes]
    /\ built' = [built EXCEPT ![p] = @ \cup {"train_set"}]
    /\ Goto(p, "load_vqvae")
    /\ UNCHANGED <<conf, args, run, fs, step, model, optimizer, vqvae, gen, batch, events, writes>>

\* instantiate the VQVAE, requires_grad_(False).eval(), load the pretrained weights
LoadVqvae(p) ==
    /\ pc[p] = "load_vqvae"
    /\ vqvae' = [vqvae EXCEPT ![p] = [loaded |-> TRUE, updates |-> 0]]
    /\ built' = [built EXCEPT ![p] = @ \cup {"vqvae"}]
    /\ Log(p, [e |-> "load_vqvae", s |-> step[p]])
    /\ Goto(p, "build_model")
    /\ UNCHANGED <<conf, args, run, fs, step, model, optimizer, gen, batch, bsz, writes>>

\* model, optimizer, step = 0
BuildModel(p) ==
    /\ pc[p] = "build_model"
    /\ model' = [model EXCEPT ![p] = <<>>]
    /\ optimizer' = [optimizer EXCEPT ![p] = <<>>]
    /\ step' = [step EXCEPT ![p] = 0]
    /\ built' = [built EXCEPT ![p] = @ \cup {"model", "optimizer"}]
    /\ Log(p, [e |-> "build_model", s |-> 0])
    /\ Goto(p, "resume")
    /\ UNCHANGED <<conf, args, run, fs, vqvae, gen, batch, bsz, writes>>

\* `if args.resume is not None: load_ckpt(resume_path)`, then accelerator.prepare
\* and wait_for_everyone()
Resume(p) ==
    /\ pc[p] = "resume"
    /\ IF args.resume # None
       THEN /\ model' = [model EXCEPT ![p] = fs.ckpt[args.resume].model]
            /\ optimizer' = [optimizer EXCEPT ![p] = fs.ckpt[args.resume].optimizer]
            /\ step' = [step EXCEPT ![p] = ResumedStep(fs.ckpt[args.resume])]
            /\ Log(p, [e |-> "resume", s |-> ResumedStep(fs.ckpt[args.resume])])
       ELSE UNCHANGED <<model, optimizer, step, events>>
    /\ Goto(p, "bar156")
    /\ UNCHANGED <<conf, args, run, fs, vqvae, built, gen, batch, bsz, writes>>

\* the loop test
While(p) ==
    /\ pc[p] = "while"
    /\ IF LoopCond(p) THEN Goto(p, "next_batch") ELSE Goto(p, "final_save")
    /\ UNCHANGED <<conf, args, run, fs, step, model, optimizer, vqvae, built, gen, batch, bsz, events, writes>>

\* batch = next(train_data_generator): returns once the generator has a batch
\* to yield; over an empty loader it restarts for ever and never yields
NextBatch(p) ==
    /\ pc[p] = "next_batch"
    /\ LET g == get_data_generator(gen[p])
       IN /\ g.pos < conf.epoch_len
          /\ gen' = [gen EXCEPT ![p] = [g EXCEPT !.pos = @ + 1]]
          /\ batch' = [batch EXCEPT ![p] = <<g.epoch, g.pos>>]
    /\ Log(p, [e |-> "fetch", s |-> step[p]])
    /\ Goto(p, "run_step")
    /\ UNCHANGED <<conf, args, run, fs, step, model, optimizer, vqvae, built, bsz, writes>>

\* run_step(batch): forward through the VQVAE and the model, backward, optimizer.step();
\* then track_status and wait_for_everyone()
RunStep(p) ==
    /\ pc[p] = "run_step"
    /\ model' = [model EXCEPT ![p] = IF "model" \in OptimizerParams THEN Append(@, step[p]) ELSE @]
    /\ vqvae' = [vqvae EXCEPT ![p].updates = IF "vqvae" \in OptimizerParams THEN @ + 1 ELSE @]
    /\ optimizer' = [optimizer EXCEPT ![p] = Append(@, step[p])]
    /\ Log(p, [e |-> "train", s |-> step[p]])
    /\ Goto(p, AfterRunStep)
    /\ UNCHANGED <<conf, args, run, fs, step, built, gen, batch, bsz, writes>>

\* the periodic checkpoint: save_ckpt(.../step{step:0>6d}), wait_for_everyone()
Save(p) ==
    /\ pc[p] = "save"
    /\ IF SaveDue(p)
       THEN /\ IF on_main_process(p)
               THEN /\ fs' = WriteCkpt(fs, StepName(step[p]), p)
                    /\ writes' = Append(writes, [proc |-> p, kind |-> "ckpt", name |-> StepName(step[p]), site |-> "loop"])
               ELSE UNCHANGED <<fs, writes>>
            /\ Log(p, [e |-> "save", s |-> step[p]])
            /\ Goto(p, "bar205")
       ELSE /\ Goto(p, "sample")
            /\ UNCHANGED <<fs, writes, events>>
    /\ UNCHANGED <<conf, args, run, step, model, optimizer, vqvae, built, gen, batch, bsz>>

\* the periodic sample: sample(.../step{step:0>6d}.png), wait_for_everyone()
Sample(p) ==
    /\ pc[p] = "sample"
    /\ IF SampleDue(p)
       THEN /\ IF on_main_process(p)
               THEN /\ fs' = [fs EXCEPT !.samples = @ \cup {StepName(step[p])}]
                    /\ writes' = Append(writes, [proc |-> p, kind |-> "sample", name |-> StepName(step[p]), site |-> "loop"])
               ELSE UNCHANGED <<fs, writes>>
            /\ Log(p, [e |-> "sample", s |-> step[p]])
            /\ Goto(p, "bar209")
       ELSE /\ Goto(p, "inc")
            /\ UNCHANGED <<fs, writes, events>>
    /\ UNCHANGED <<conf, args, run, step, model, optimizer, vqvae, built, gen, batch, bsz>>

\* step += 1
Inc(p) ==
    /\ pc[p] = "inc"
    /\ Log(p, [e |-> "inc", s |-> step[p]])
    /\ step' = [step EXCEPT ![p] = @ + 1]
    /\ Goto(p, "while")
    /\ UNCHANGED <<conf, args, run, fs, model, optimizer, vqvae, built, gen, batch, bsz, writes>>

\* after the loop: save the last checkpoint if not saved, then wait_for_everyone()
FinalSave(p) ==
    /\ pc[p] = "final_save"
    /\ IF FinalSaveDue(p)
       THEN /\ IF on_main_process(p)
               THEN /\ fs' = WriteCkpt(fs, StepName(step[p] - 1), p)
                    /\ writes' = Append(writes, [proc |-> p, kind |-> "ckpt", name |-> StepName(step[p] - 1), site |-> "final"])
               ELSE UNCHANGED <<fs, writes>>
            /\ Log(p, [e |-> "final_save", s |-> step[p] - 1])
       ELSE UNCHANGED <<fs, writes, events>>
    /\ Goto(p, "bar214")
    /\ UNCHANGED <<conf, args, run, step, model, optimizer, vqvae, built, gen, batch, bsz>>

\* the script is launched again once every process of the last launch has ended:
\* without --resume into a new experiment directory, with --resume <path> into
\* the existing one
Launch ==
    /\ \A p \in Procs : Terminated(p)
    /\ run < MaxRuns
    /\ run' = run + 1
    /\ \E n \in 1 .. MaxSteps : conf' = [conf EXCEPT !.n_steps = n]
    /\ \/ /\ args' = [resume |-> None]
          /\ fs' = EmptyFs
       \/ /\ \E r \in DOMAIN fs.ckpt : args' = [resume |-> r]
          /\ UNCHANGED fs
    /\ pc' = Fresh("accelerator")
    /\ step' = Fresh(0)
    /\ model' = Fresh(<<>>)
    /\ optimizer' = Fresh(<<>>)
    /\ vqvae' = Fresh(NoVqvae)
    /\ built' = Fresh({})
    /\ gen' = Fresh(NoGen)
    /\ batch' = Fresh(None)
    /\ bsz' = Fresh(0)
    /\ events' = Fresh(<<>>)
    /\ writes' = <<>>

Next ==
    \/ \E p \in Procs : InitAccelerator(p)
    \/ \E p \in Procs : CreateExpDir(p)
    \/ \E p \in Procs : CheckBatchSize(p)
    \/ \E p \in Procs : BuildData(p)
    \/ \E p \in Procs : LoadVqvae(p)
    \/ \E p \in Procs : BuildModel(p)
    \/ \E p \in Procs : Resume(p)
    \/ \E p \in Procs : While(p)
    \/ \E p \in Procs : NextBatch(p)
    \/ \E p \in Procs : RunStep(p)
    \/ \E p \in Procs : Save(p)
    \/ \E p \in Procs : Sample(p)
    \/ \E p \in Procs : Inc(p)
    \/ \E p \in Procs : FinalSave(p)
    \/ WaitForEveryone
    \/ Launch

Spec == Init /\ [][Next]_vars

\* ------------------------------------------------- derived quantities
\* the events of one kind in the trace of process p
EventsOf(p, kind) == SelectSeq(events[p], LAMBDA x : x.e = kind)

\* the step the loop of this run started from: 0, or the step load_ckpt set
StartStep(p) == IF EventsOf(p, "resume") = <<>> THEN 0 ELSE EventsOf(p, "resume")[1].s

\* the events of the training loop, in order
LoopEvents(p) == SelectSeq(events[p], LAMBDA x : x.e \in {"fetch", "train", "save", "sample", "inc"})

\* what one iteration for step s does according to the linear flow
IterEvents(s) ==
    <<[e |-> "fetch", s |-> s], [e |-> "train", s |-> s]>>
    \o (IF check_freq(conf.save_freq, s) THEN <<[e |-> "save", s |-> s]>> ELSE <<>>)
    \o (IF check_freq(conf.sample_freq, s) THEN <<[e |-> "sample", s |-> s]>> ELSE <<>>)
    \o <<[e |-> "inc", s |-> s]>>

RECURSIVE ExpectedLoop(_, _)
ExpectedLoop(s, k) == IF k = 0 THEN <<>> ELSE IterEvents(s) \o ExpectedLoop(s + 1, k - 1)

IsPrefix(a, b) == Len(a) <= Len(b) /\ \A i \in 1 .. Len(a) : a[i] = b[i]

\* the parameters contain the updates of steps 0, 1, ..., in order, each once
Contiguous(m) == \A i \in 1 .. Len(m) : m[i] = i - 1

\* the writes of this run into ckpt/ or samples/
DataWrites == {i \in 1 .. Len(writes) : writes[i].kind \in {"ckpt", "sample"}}

\* ---------------------------------------------------------------- C1
\* C1: resuming from any checkpoint the program wrote continues the step
\* counter right after the last step whose update the checkpoint contains, so
\* the parameters of a process always contain the updates of steps 0, 1, 2, ...
\* without gap or repeat, the loop is entered with step equal to the number of
\* updates applied, and a finished run has trained every step below n_steps.
C1_ResumeNoGapNoRepeat ==
    \A p \in Procs :
        /\ Contiguous(model[p])
        /\ pc[p] \in {"bar156", "while"} => step[p] = Len(model[p])
        /\ pc[p] = "done" => Len(model[p]) >= conf.n_steps

\* ---------------------------------------------------------------- C2
\* C2: when a run ends normally and trained at least one step, the directory
\* ckpt/step{n_steps-1} exists and was written exactly once in this run: in
\* the loop if the save-frequency check holds for n_steps-1, and after the
\* loop otherwise.
LastCkptWrites ==
    {i \in 1 .. Len(writes) : writes[i].kind = "ckpt" /\ writes[i].name = StepName(conf.n_steps - 1)}

FinishedAfterTraining == (\A p \in Procs : pc[p] = "done") /\ EventsOf(0, "train") # <<>>

C2_LastCheckpointOnce ==
    FinishedAfterTraining =>
        /\ StepName(conf.n_steps - 1) \in DOMAIN fs.ckpt
        /\ Cardinality(LastCkptWrites) = 1
        /\ \A i \in LastCkptWrites :
             writes[i].site = (IF check_freq(conf.save_freq, conf.n_steps - 1) THEN "loop" ELSE "final")

\* a finished two-process run whose last checkpoint came from the loop
C2_Witness ==
    /\ FinishedAfterTraining
    /\ conf.num_processes = 2
    /\ conf.n_steps = 2
    /\ \E i \in LastCkptWrites : writes[i].site = "loop"

\* ---------------------------------------------------------------- C3
\* C3: the run is one linear flow.  A resume comes after the model and the
\* optimizer are built and before any training step; the loop does, per step
\* s: fetch, train, save iff due, sample iff due, step += 1; and every
\* checkpoint or sample written for step s is written by a process whose
\* parameters already contain the update of step s.
ResumeInOrder(p) ==
    \A i \in 1 .. Len(events[p]) : events[p][i].e = "resume" =>
        /\ \E j \in 1 .. i - 1 : events[p][j].e = "build_model"
        /\ \A j \in 1 .. i - 1 : events[p][j].e \notin {"train", "resume"}

LoopInOrder(p) ==
    /\ IsPrefix(LoopEvents(p), ExpectedLoop(StartStep(p), Len(EventsOf(p, "fetch"))))
    /\ pc[p] = "while" => step[p] = StartStep(p) + Len(EventsOf(p, "inc"))

WrittenAfterUpdate ==
    \A i \in DataWrites : \E s \in Range(model[writes[i].proc]) : StepName(s) = writes[i].name

C3_FlowOrder == \A p \in Procs : ResumeInOrder(p) /\ LoopInOrder(p)

C3_LinearFlow == C3_FlowOrder /\ WrittenAfterUpdate

\* ---------------------------------------------------------------- C4
\* C4: with a loader of at least one batch, every iteration obtains the next
\* batch of the loader (the first batch again after the last one of an epoch),
\* the loop never does more than max(0, n_steps - start_step) iterations and
\* has done exactly that many when it is left, and a run whose processes have
\* not all ended can always take a step, so the loop is left.
Max(a, b) == IF a >= b THEN a ELSE b

Iterations(p) == Len(EventsOf(p, "fetch"))

IterationsDue(p) == Max(0, conf.n_steps - StartStep(p))

AfterLoop == {"final_save", "bar214", "done"}

RunCanStep == ENABLED (WaitForEveryone \/ \E p \in Procs : NextBatch(p) \/ RunStep(p) \/ Save(p) \/ Sample(p) \/ Inc(p) \/ While(p) \/ FinalSave(p))

C4_LoopTerminates ==
    conf.epoch_len >= 1 =>
        \A p \in Procs :
            /\ Iterations(p) <= IterationsDue(p)
            /\ pc[p] \in AfterLoop =>
                 Iterations(p) = IterationsDue(p) /\ Len(EventsOf(p, "train")) = IterationsDue(p)
            /\ pc[p] = "next_batch" => ENABLED NextBatch(p)
            /\ pc[p] = "run_step" =>
                 batch[p] = <<(Iterations(p) - 1) \div conf.epoch_len,
                              (Iterations(p) - 1) % conf.epoch_len>>
            /\ pc[p] \in {"while", "next_batch", "run_step", "bar199", "save", "bar205", "sample", "bar209", "inc"} =>
                 RunCanStep

\* a resumed run that went through more than one epoch and ended
C4_Witness ==
    \E p \in Procs :
        /\ pc[p] = "done"
        /\ args.resume # None
        /\ gen[p].epoch >= 1
        /\ Iterations(p) >= 2

\* ---------------------------------------------------------------- C5
\* C5: the VQVAE is loaded once, before the loop, and from then on nothing in
\* the run changes it; a training step changes the model and the optimizer of
\* its process and neither the step counter, the VQVAE nor any file; a
\* checkpoint holds the model, the optimizer and the step counter only.
LoadedOnceBeforeLoop(p) ==
    /\ Len(EventsOf(p, "load_vqvae")) <= 1
    /\ \A i \in 1 .. Len(events[p]) : events[p][i].e = "fetch" =>
         \E j \in 1 .. i - 1 : events[p][j].e = "load_vqvae"

CheckpointContents ==
    \A n \in DOMAIN fs.ckpt : DOMAIN fs.ckpt[n] = {"model", "optimizer", "step"}

VqvaeKept(p) == (run' = run /\ vqvae[p].loaded) => vqvae'[p] = vqvae[p]

TrainStepFrame(p) ==
    (run' = run /\ pc[p] = "run_step" /\ pc'[p] # "run_step") =>
        /\ model'[p] # model[p]
        /\ optimizer'[p] # optimizer[p]
        /\ UNCHANGED <<step, vqvae, fs, writes, conf, args>>

C5_FrozenEncoder ==
    /\ [](CheckpointContents /\ \A p \in Procs : LoadedOnceBeforeLoop(p) /\ vqvae[p].updates = 0)
    /\ [][\A p \in Procs : VqvaeKept(p) /\ TrainStepFrame(p)]_vars

\* a resumed run that trained, saved and sampled with the VQVAE loaded
C5_Witness ==
    /\ args.resume # None
    /\ vqvae[0].loaded
    /\ Len(EventsOf(0, "train")) >= 2
    /\ \E i \in DataWrites : writes[i].kind = "ckpt"
    /\ \E i \in DataWrites : writes[i].kind = "sample"

\* ---------------------------------------------------------------- C6
\* C6: every write of this run (the experiment directory, checkpoint files,
\* sample images) was done by the main process, whatever the interleaving.
C6_OnlyMainWrites == \A i \in 1 .. Len(writes) : writes[i].proc = 0

\* a second process went through the periodic save, the sample and the final
\* save of a run that wrote all three kinds of files
C6_Witness ==
    /\ conf.num_processes = 2
    /\ pc[1] = "done"
    /\ EventsOf(1, "save") # <<>>
    /\ EventsOf(1, "sample") # <<>>
    /\ EventsOf(1, "final_save") # <<>>
    /\ {writes[i].kind : i \in 1 .. Len(writes)} = {"exp_dir", "ckpt", "sample"}

\* ---------------------------------------------------------------- C7
\* C7: when batch_size is not a multiple of num_processes, a process that is
\* past the check has raised ValueError, has built neither the dataset, the
\* VQVAE nor the model, has trained no step, and nothing is written into ckpt/
\* or samples/; otherwise batch_size_per_process * num_processes = batch_size.
PastCheck(p) == pc[p] \notin {"accelerator", "bar52", "create_exp_dir", "bar88", "check_batch_size"}

C7_BatchSizeCheck ==
    \A p \in Procs :
        IF conf.batch_size % conf.num_processes # 0
        THEN /\ PastCheck(p) => pc[p] = "raised"
             /\ built[p] = {}
             /\ EventsOf(p, "train") = <<>>
             /\ DataWrites = {}
        ELSE "train_set" \in built[p] => bsz[p] * conf.num_processes = conf.batch_size

\* both processes of a launch with batch_size 3 have raised
C7_Witness ==
    /\ conf.num_processes = 2
    /\ conf.batch_size = 3
    /\ \A p \in Procs : pc[p] = "raised" /\ EventsOf(p, "ValueError") # <<>>

\* ---------------------------------------------------------------- C8
\* C8: processes that wait in wait_for_everyone wait in the same call, no
\* process waits while another has ended, and when the main process is about
\* to write the checkpoint or sample of step s, the parameters of every
\* process contain the update of step s and not that of step s+1.
BarriersMatched ==
    \A p, q \in Procs :
        pc[p] \in Barriers =>
            /\ ~Terminated(q)
            /\ pc[q] \in Barriers => pc[q] = pc[p]

\* the steps whose checkpoint or sample the main process writes next
MainWrites ==
    (IF pc[0] = "save" /\ check_freq(conf.save_freq, step[0]) THEN {step[0]} ELSE {})
    \cup (IF pc[0] = "sample" /\ check_freq(conf.sample_freq, step[0]) THEN {step[0]} ELSE {})
    \cup (IF pc[0] = "final_save" /\ ~check_freq(conf.save_freq, step[0] - 1) THEN {step[0] - 1} ELSE {})

WritesBetweenUpdates ==
    \A s \in MainWrites : \A q \in Procs :
        /\ s \in Range(model[q])
        /\ (s + 1) \notin Range(model[q])
        /\ pc[q] # "run_step"

C8_BarriersSeparate == BarriersMatched /\ WritesBetweenUpdates

=============================================================================
